---------------------------- MODULE Spec2Model ----------------------------
(***************************************************************************)
(* Model of polyline-offset-lab: the canvas event handlers of main_js      *)
(* (src/src/lib.rs) that record a polyline, the animation frame callback   *)
(* that computes its offset polyline, and the point/vector algebra of      *)
(* src/src/math.rs.                                                        *)
(*                                                                         *)
(* Numbers.  An f64 is modelled as an extended rational [n, d] in lowest   *)
(* terms: d > 0 is the finite value n/d, [1,0] is +inf, [-1,0] is -inf and *)
(* [0,0] is NaN.  The operations follow IEEE 754 on the special values     *)
(* (x/0 = inf, 0*inf = NaN, inf-inf = NaN, comparisons with NaN false) and *)
(* are exact on finite values: rounding and the sign of zero are not       *)
(* modelled.  sqrt is exact, so the model covers the polylines whose edges *)
(* have a rational length (see HasExactLength).                            *)
(*                                                                         *)
(* Not modelled: the DOM (canvas size attributes) and the 2d rendering     *)
(* context, which the handlers only write to.                              *)
(***************************************************************************)
EXTENDS Integers, Sequences, FiniteSets

(***************************************************************************)
(* Bounds of the model                                                     *)
(***************************************************************************)
\* The longest polyline the model records.
MaxVertices == 4

\* The client coordinates a mouseup can carry.
ClickPositions ==
    { <<0, 0>>, <<5, 0>>, <<10, 0>>, <<10, 10>>, <<2, 4>>, <<10, 12>> }

\* The client coordinates a mouseenter or mousemove can carry.
PointerPositions == { <<5, 0>>, <<2, 4>> }

(***************************************************************************)
(* f64                                                                     *)
(***************************************************************************)
Abs(i) == IF i < 0 THEN -i ELSE i

Sign(i) == IF i < 0 THEN -1 ELSE IF i = 0 THEN 0 ELSE 1

RECURSIVE Gcd(_, _)
Gcd(a, b) == IF b = 0 THEN a ELSE Gcd(b, a % b)

\* The f64 with numerator n and denominator d: lowest terms, d >= 0.
F(n, d) ==
    IF d = 0 THEN [n |-> Sign(n), d |-> 0]
    ELSE LET g == Gcd(Abs(n), Abs(d))
             s == Sign(d)
         IN  [n |-> s * (n \div g), d |-> s * (d \div g)]

\* `i as f64`
FromInt(i) == [n |-> i, d |-> 1]

NaN == [n |-> 0, d |-> 0]
Zero == FromInt(0)
One == FromInt(1)

IsFinite(x) == x.d # 0

FNeg(x) == [n |-> -x.n, d |-> x.d]

FAdd(x, y) ==
    IF x.d = 0 /\ y.d = 0
    THEN IF x.n = y.n THEN x ELSE NaN      \* inf + inf = inf, inf - inf = NaN
    ELSE F(x.n * y.d + y.n * x.d, x.d * y.d)

FSub(x, y) == FAdd(x, FNeg(y))

FMul(x, y) == F(x.n * y.n, x.d * y.d)

FDiv(x, y) ==
    IF (y.d = 0 /\ x.d = 0) \/ (y.d = 0 /\ y.n = 0)
    THEN NaN                               \* inf / inf, x / NaN
    ELSE IF y.n = 0 THEN F(x.n, 0)         \* x / 0 = inf, 0 / 0 = NaN
    ELSE F(x.n * y.d * Sign(y.n), x.d * Abs(y.n))

FAbs(x) == [n |-> Abs(x.n), d |-> x.d]

\* The largest r' >= r with r' * r' <= i, for r * r <= i.
RECURSIVE RootFrom(_, _)
RootFrom(i, r) == IF (r + 1) * (r + 1) > i THEN r ELSE RootFrom(i, r + 1)

IsSquare(i) == RootFrom(i, 0) * RootFrom(i, 0) = i

\* The root of a square; no value otherwise.
ISqrt(i) == CHOOSE r \in { RootFrom(i, 0) } : r * r = i

\* f64::sqrt, exact: defined on the rationals whose root is rational.
FSqrt(x) ==
    IF x.n < 0 THEN NaN
    ELSE IF x.d = 0 THEN x
    ELSE [n |-> ISqrt(x.n), d |-> ISqrt(x.d)]

\* f64::EPSILON is 2^-52.
EPSILON_EXPONENT == 52

\* a * 2^k < b, for 0 <= a and 0 < b, without leaving the machine integers.
RECURSIVE ShiftedLess(_, _, _)
ShiftedLess(a, k, b) ==
    IF k = 0 \/ a = 0 THEN a < b
    ELSE IF a >= b - a THEN FALSE
    ELSE ShiftedLess(2 * a, k - 1, b)

\* x < f64::EPSILON, for x >= 0 or NaN
LessThanEpsilon(x) == x.d # 0 /\ ShiftedLess(x.n, EPSILON_EXPONENT, x.d)

(***************************************************************************)
(* math.rs: Point<[f64; 2]> and Vector<[f64; 2]> are pairs of f64.         *)
(***************************************************************************)
\* The component indices (lib.rs uses 0 and 1; TLA+ tuples start at 1).
X == 1
Y == 2

\* Point + Vector, through element_wise_binary(_, _, Add::add)
PointAddVector(p, v) == << FAdd(p[X], v[X]), FAdd(p[Y], v[Y]) >>

\* Point - Point, through element_wise_binary(_, _, Sub::sub)
PointSubPoint(p, q) == << FSub(p[X], q[X]), FSub(p[Y], q[Y]) >>

\* Vector * f64
VectorMul(v, rhs) == << FMul(v[X], rhs), FMul(v[Y], rhs) >>

magnitude(v) == FSqrt(FAdd(FAdd(Zero, FMul(v[X], v[X])), FMul(v[Y], v[Y])))

\* C5's mutant of normalize: the vector is returned unscaled.
normalize_unscaled(v) == v

normalize(v) ==
    LET scale == FDiv(One, magnitude(v))
    IN  VectorMul(v, scale)

\* C8's mutant of normal: the edge direction is rotated clockwise.
normal_clockwise(a, b) ==
    LET d == PointSubPoint(b, a)
    IN  normalize(<< d[Y], FNeg(d[X]) >>)

normal(a, b) ==
    LET d == PointSubPoint(b, a)
    IN  normalize(<< FNeg(d[Y]), d[X] >>)


(***************************************************************************)
(* lib.rs: the offset computation of animation_frame_callback              *)
(***************************************************************************)
\* The offset distance, `normal * 50.0`.
OffsetDistance == 50

\* C6's mutant of Windows2: the windows wrap around, pairing the last
\* element with the first.
Windows2Closed(s) ==
    [i \in 1..Len(s) |-> << s[i], s[IF i = Len(s) THEN 1 ELSE i + 1] >>]

\* slice.windows(2): the consecutive pairs of s, in order.
Windows2(s) ==
    [i \in 1..(IF Len(s) < 2 THEN 0 ELSE Len(s) - 1) |-> << s[i], s[i + 1] >>]

\* The closure mapping an edge [a, b] of the polyline to its offset edge.
OffsetEdge(x) ==
    LET a == x[1]
        b == x[2]
        n == normal(a, b)
        offset == VectorMul(n, FromInt(OffsetDistance))
    IN  << PointAddVector(a, offset), PointAddVector(b, offset) >>

\* line_segments: one offset edge per window of the vertices.
LineSegmentsOf(vertices) ==
    LET w == Windows2(vertices)
    IN  [i \in 1..Len(w) |-> OffsetEdge(w[i])]

\* C4's mutant of Joint: t is clamped to [0, 1], keeping the joint on the
\* segment p0 p1.
JointClamped(pair) ==
    LET p0 == pair[1][1]
        p1 == pair[1][2]
        q0 == pair[2][1]
        q1 == pair[2][2]
        p0p1 == PointSubPoint(p1, p0)
        q0q1 == PointSubPoint(q1, q0)
        q0p0 == PointSubPoint(p0, q0)
        d == FSub(FMul(q0q1[X], p0p1[Y]), FMul(p0p1[X], q0q1[Y]))
    IN  IF LessThanEpsilon(FAbs(d))
        THEN << >>
        ELSE LET t == FDiv(FSub(FMul(q0p0[X], q0q1[Y]), FMul(q0q1[X], q0p0[Y])), d)
                 clamped == IF t.d # 0 /\ t.n < 0 THEN Zero
                            ELSE IF t.d # 0 /\ t.n > t.d THEN One
                            ELSE t
             IN  << PointAddVector(p0, VectorMul(p0p1, clamped)) >>

\* The filter_map closure: None (<<>>) on the parallel branch, else
\* Some(p0 + p0p1 * t) (a one-element sequence).
Joint(pair) ==
    LET p0 == pair[1][1]
        p1 == pair[1][2]
        q0 == pair[2][1]
        q1 == pair[2][2]
        p0p1 == PointSubPoint(p1, p0)
        q0q1 == PointSubPoint(q1, q0)
        q0p0 == PointSubPoint(p0, q0)
        d == FSub(FMul(q0q1[X], p0p1[Y]), FMul(p0p1[X], q0q1[Y]))
    IN  IF LessThanEpsilon(FAbs(d))
        THEN << >>
        ELSE LET t == FDiv(FSub(FMul(q0p0[X], q0q1[Y]), FMul(q0q1[X], q0p0[Y])), d)
             IN  << PointAddVector(p0, VectorMul(p0p1, t)) >>

\* C3's mutant of Collect: a None is kept as a copy of the joint before it.
RECURSIVE CollectRepeating(_)
CollectRepeating(options) ==
    IF options = << >> THEN << >>
    ELSE LET rest == CollectRepeating(Tail(options))
         IN  IF Head(options) = << >> /\ rest # << >>
             THEN << rest[1] >> \o rest
             ELSE Head(options) \o rest

\* Iterator::filter_map(..).collect(): the Some values, in order.
RECURSIVE Collect(_)
Collect(options) ==
    IF options = << >> THEN << >>
    ELSE Head(options) \o Collect(Tail(options))

\* C7's mutant of AssembleVertices: the last vertex pushed is the start of
\* the last offset edge, not its end.
AssembleVerticesFromStarts(segments) ==
    LET w == Windows2(segments)
        joints == Collect([i \in 1..Len(w) |-> Joint(w[i])])
    IN  IF segments # << >>
        THEN << segments[1][1] >> \o joints \o << segments[Len(segments)][1] >>
        ELSE joints

\* The vertices of the offset polyline assembled from line_segments.
AssembleVertices(segments) ==
    LET w == Windows2(segments)
        joints == Collect([i \in 1..Len(w) |-> Joint(w[i])])
    IN  IF segments # << >>
        THEN << segments[1][1] >> \o joints \o << segments[Len(segments)][2] >>
        ELSE joints

\* The closure mapping a polyline to its offset polyline.
OffsetPolyline(polyline) == AssembleVertices(LineSegmentsOf(polyline.vertices))

(***************************************************************************)
(* State                                                                   *)
(***************************************************************************)
VARIABLES
    mouse_position,     \* State.mouse_position: << >> is None, <<p>> is Some(p)
    polylines,          \* State.polylines: a sequence of [vertices |-> ...]
    line_segments,      \* the last frame's line_segments, one per polyline
    offset_polylines,   \* the last frame's offset_polylines
    event,              \* history: the handler that ran last
    clicks,             \* history: the positions of the mouseup events so far
    frames              \* history: the frames run since the last mouseup,
                        \* counted up to 2

vars == << mouse_position, polylines, line_segments, offset_polylines,
           event, clicks, frames >>

\* Point([event.client_x() as f64, event.client_y() as f64])
ClientPoint(c) == << FromInt(c[1]), FromInt(c[2]) >>

\* State::default(), and the first frame requested but not yet run.
Init ==
    /\ mouse_position = << >>
    /\ polylines = << >>
    /\ line_segments = << >>
    /\ offset_polylines = << >>
    /\ event = "none"
    /\ clicks = << >>
    /\ frames = 0

\* The edge from the last recorded vertex to c has a rational length
\* (0 included), so that the model's sqrt is exact on it.
HasExactLength(c) ==
    IF polylines = << >> THEN TRUE
    ELSE LET v == polylines[1].vertices
             a == v[Len(v)]
             dx == c[1] - a[X].n
             dy == c[2] - a[Y].n
         IN  IsSquare(dx * dx + dy * dy)

\* The number of vertices recorded so far.
Recorded == IF polylines = << >> THEN 0 ELSE Len(polylines[1].vertices)

\* C10's mutant of mouseup: the vertex is inserted at the front.
mouseup_prepending(c) ==
    /\ Recorded < MaxVertices
    /\ HasExactLength(c)
    /\ LET started == IF polylines = << >>
                      THEN << [vertices |-> << >>] >>
                      ELSE polylines
       IN  polylines' = [started EXCEPT
                           ![1].vertices = << ClientPoint(c) >> \o @]
    /\ event' = "mouseup"
    /\ clicks' = Append(clicks, ClientPoint(c))
    /\ frames' = 0
    /\ UNCHANGED << mouse_position, line_segments, offset_polylines >>

mouseup(c) ==
    /\ Recorded < MaxVertices
    /\ HasExactLength(c)
    /\ LET started == IF polylines = << >>
                      THEN << [vertices |-> << >>] >>
                      ELSE polylines
       IN  polylines' = [started EXCEPT
                           ![1].vertices = Append(@, ClientPoint(c))]
    /\ event' = "mouseup"
    /\ clicks' = Append(clicks, ClientPoint(c))
    /\ frames' = 0
    /\ UNCHANGED << mouse_position, line_segments, offset_polylines >>

mouseenter(c) ==
    /\ mouse_position' = << ClientPoint(c) >>
    /\ event' = "mouseenter"
    /\ UNCHANGED << polylines, line_segments, offset_polylines, clicks, frames >>

mousemove(c) ==
    /\ mouse_position' = IF mouse_position # << >>
                         THEN << ClientPoint(c) >>
                         ELSE mouse_position
    /\ event' = "mousemove"
    /\ UNCHANGED << polylines, line_segments, offset_polylines, clicks, frames >>

mouseleave ==
    /\ mouse_position' = << >>
    /\ event' = "mouseleave"
    /\ UNCHANGED << polylines, line_segments, offset_polylines, clicks, frames >>

\* C9's mutant of animation_frame_callback: the frame takes the polylines
\* out of the state instead of borrowing them.
animation_frame_callback_taking ==
    /\ line_segments' =
           [i \in 1..Len(polylines) |-> LineSegmentsOf(polylines[i].vertices)]
    /\ offset_polylines' =
           [i \in 1..Len(polylines) |-> OffsetPolyline(polylines[i])]
    /\ polylines' = << >>
    /\ event' = "redraw"
    /\ frames' = IF frames < 2 THEN frames + 1 ELSE frames
    /\ UNCHANGED << mouse_position, clicks >>

animation_frame_callback ==
    /\ line_segments' =
           [i \in 1..Len(polylines) |-> LineSegmentsOf(polylines[i].vertices)]
    /\ offset_polylines' =
           [i \in 1..Len(polylines) |-> OffsetPolyline(polylines[i])]
    /\ event' = "redraw"
    /\ frames' = IF frames < 2 THEN frames + 1 ELSE frames
    /\ UNCHANGED << mouse_position, polylines, clicks >>

Next ==
    \/ \E c \in ClickPositions : mouseup(c)
    \/ \E c \in PointerPositions : mouseenter(c)
    \/ \E c \in PointerPositions : mousemove(c)
    \/ mouseleave
    \/ animation_frame_callback

Spec == Init /\ [][Next]_vars

(***************************************************************************)
(* Vocabulary of the properties                                            *)
(***************************************************************************)
\* The vertices of the polyline (none before the first mouseup).
Vertices == IF polylines = << >> THEN << >> ELSE polylines[1].vertices

\* A frame has just run: line_segments and offset_polylines are those of
\* the polyline as it is now.
Redrawn == event = "redraw"

\* The last frame's offset edges and offset polyline of the polyline.
Segments == IF line_segments = << >> THEN << >> ELSE line_segments[1]
Offset == IF offset_polylines = << >> THEN << >> ELSE offset_polylines[1]

\* The i-th pair of consecutive offset edges, i in 1..Len(Segments)-1.
Pair(i) == << Segments[i], Segments[i + 1] >>
Pairs == 1..(Len(Segments) - 1)

NoZeroLengthEdge == \A i \in 1..(Len(Vertices) - 1) : Vertices[i] # Vertices[i + 1]

\* The joint solver takes the parallel branch on the i-th pair.
Dropped(i) == Joint(Pair(i)) = << >>

Points(s) == [i \in 1..Len(s) |-> ClientPoint(s[i])]

FinitePoint(p) == IsFinite(p[X]) /\ IsFinite(p[Y])

Dot(u, v) == FAdd(FMul(u[X], v[X]), FMul(u[Y], v[Y]))
Cross(u, v) == FSub(FMul(u[X], v[Y]), FMul(u[Y], v[X]))
IsPositive(x) == x.d # 0 /\ x.n > 0
IsNegative(x) == x.d # 0 /\ x.n < 0

(***************************************************************************)
(* C1                                                                      *)
(***************************************************************************)
\* C1: whenever the joint solver takes the parallel branch for two
\* consecutive offset edges (p0,p1), (q0,q1) of a polyline with no
\* zero-length edge, p1 = q0: dropping the joint leaves no gap.
\* The code violates it on a polyline that folds back on itself.
C1_ParallelBranchLeavesNoGap ==
    (Redrawn /\ NoZeroLengthEdge) =>
        \A i \in Pairs : Dropped(i) => Pair(i)[1][2] = Pair(i)[2][1]

(***************************************************************************)
(* C2                                                                      *)
(***************************************************************************)
\* C2: a degenerate edge never yields a non-finite offset vertex: after any
\* sequence of mouseup events, every coordinate of the offset edges and of
\* the offset polyline is finite.  The code records duplicate points and
\* divides by the zero magnitude.
C2_NoNonFiniteOffsetVertex ==
    Redrawn =>
        /\ \A i \in 1..Len(Segments) :
               FinitePoint(Segments[i][1]) /\ FinitePoint(Segments[i][2])
        /\ \A i \in 1..Len(Offset) : FinitePoint(Offset[i])

(***************************************************************************)
(* C3                                                                      *)
(***************************************************************************)
\* The pairs up to the i-th on which the solver returns a joint.
KeptUpTo(i) == { j \in 1..i : ~Dropped(j) }

\* C3: for a polyline of n >= 2 vertices with no zero-length edge, the offset
\* polyline has n - k vertices, k the number of pairs of consecutive offset
\* edges on which the solver takes the parallel branch; the joints that are
\* kept follow the first vertex in source order, so that with k = 0 the
\* i-th internal vertex is the joint of offset edges i-1 and i.
C3_OffsetLength ==
    (Redrawn /\ Len(Vertices) >= 2 /\ NoZeroLengthEdge) =>
        /\ Len(Offset) =
               Len(Vertices) - Cardinality({ i \in Pairs : Dropped(i) })
        /\ \A i \in Pairs :
               ~Dropped(i) =>
                   Offset[1 + Cardinality(KeptUpTo(i))] = Joint(Pair(i))[1]

\* C3's case: a polyline of four vertices with one joint dropped and one kept.
C3_Witness ==
    /\ Redrawn /\ Len(Vertices) = 4 /\ NoZeroLengthEdge
    /\ Cardinality({ i \in Pairs : Dropped(i) }) = 1
    /\ Len(Offset) = 3

(***************************************************************************)
(* C4                                                                      *)
(***************************************************************************)
\* The offset edges of the i-th pair are defined (no NaN from a zero-length
\* edge) and the solver returns a joint for them.
Solved(i) ==
    /\ \A e \in 1..2 : FinitePoint(Pair(i)[e][1]) /\ FinitePoint(Pair(i)[e][2])
    /\ ~Dropped(i)

\* The joint of the i-th pair lies before p0 on the first edge (t < 0).
BeforeFirstEdge(i) ==
    LET p0 == Pair(i)[1][1]
        p1 == Pair(i)[1][2]
        J == Joint(Pair(i))[1]
    IN  IsNegative(Dot(PointSubPoint(J, p0), PointSubPoint(p1, p0)))

\* The joint of the i-th pair lies beyond p1 on the first edge (t > 1).
BeyondFirstEdge(i) ==
    LET p0 == Pair(i)[1][1]
        p1 == Pair(i)[1][2]
        J == Joint(Pair(i))[1]
    IN  IsNegative(Dot(PointSubPoint(J, p1), PointSubPoint(p0, p1)))

\* C4: for every non-parallel pair of consecutive offset edges (p0,p1),
\* (q0,q1), the joint J the solver returns lies on the line through p0, p1
\* and on the line through q0, q1: (J-p0) x (p1-p0) = 0 and
\* (J-q0) x (q1-q0) = 0, also when J falls outside the segments.
C4_JointOnBothLines ==
    Redrawn =>
        \A i \in Pairs :
            Solved(i) =>
                LET p0 == Pair(i)[1][1]
                    p1 == Pair(i)[1][2]
                    q0 == Pair(i)[2][1]
                    q1 == Pair(i)[2][2]
                    J == Joint(Pair(i))[1]
                IN  /\ Cross(PointSubPoint(J, p0), PointSubPoint(p1, p0)) = Zero
                    /\ Cross(PointSubPoint(J, q0), PointSubPoint(q1, q0)) = Zero

\* C4's case: a polyline with a joint before the start of its first edge
\* (t < 0) and a joint beyond the end of its first edge (t > 1).
C4_Witness ==
    /\ Redrawn
    /\ \E i \in Pairs : Solved(i) /\ BeforeFirstEdge(i)
    /\ \E i \in Pairs : Solved(i) /\ BeyondFirstEdge(i)

(***************************************************************************)
(* C5                                                                      *)
(***************************************************************************)
RightAngle == Points(<< <<0, 0>>, <<10, 0>>, <<10, 10>> >>)

C6_OffsetEdgeCount ==
    Redrawn =>
        /\ Len(Segments) = (IF Len(Vertices) = 0 THEN 0 ELSE Len(Vertices) - 1)
        /\ Len(Vertices) < 2 => (Segments = << >> /\ Offset = << >>)
        /\ \A i \in 1..Len(Segments) :
               Segments[i] = OffsetEdge(<< Vertices[i], Vertices[i + 1] >>)

\* C6's case: a frame has drawn a polyline of a single vertex.
C6_Witness == Redrawn /\ Len(Vertices) = 1 /\ Offset = << >> /\ event = "redraw"

(***************************************************************************)
(* C7                                                                      *)
(***************************************************************************)
\* v + normal(a,b) * 50
Displaced(v, a, b) ==
    PointAddVector(v, VectorMul(normal(a, b), FromInt(OffsetDistance)))

\* The first and the last vertex of the offset polyline are the offsets of
\* the first and the last source vertex along their edges; with two source
\* vertices there is nothing else.
EndsAreOffsetEnds ==
    LET n == Len(Vertices)
    IN  /\ Offset # << >>
        /\ Offset[1] = Displaced(Vertices[1], Vertices[1], Vertices[2])
        /\ Offset[Len(Offset)] = Displaced(Vertices[n], Vertices[n - 1], Vertices[n])
        /\ n = 2 => Len(Offset) = 2

Straight == Points(<< <<0, 0>>, <<10, 0>> >>)

C9_RedrawIsPure ==
    [][event' = "redraw" =>
           /\ polylines' = polylines
           /\ mouse_position' = mouse_position
           /\ frames >= 1 =>
                  /\ offset_polylines' = offset_polylines
                  /\ line_segments' = line_segments]_vars

\* C9's case: two frames with no mouseup between them, the pointer on the
\* canvas, have drawn a polyline with a joint.
C9_Witness ==
    /\ frames = 2 /\ event = "redraw"
    /\ mouse_position # << >>
    /\ Len(Offset) >= 3

(***************************************************************************)
(* C10                                                                     *)
(***************************************************************************)
\* C10: the state holds at most one polyline, none before the first
\* mouseup, and its vertices are the mouseup positions in event order.
C10_VerticesAreClicks ==
    /\ Len(polylines) <= 1
    /\ polylines = << >> <=> clicks = << >>
    /\ Vertices = clicks

\* C10's case: three mouseups, then pointer events and a frame.
C10_Witness ==
    /\ Len(clicks) = 3 /\ clicks[1] # clicks[2] /\ clicks[3] = clicks[1]
    /\ frames >= 1
    /\ event = "mousemove" /\ mouse_position # << >>

=============================================================================
